---- MODULE Spec2Model ----
(***************************************************************************)
(* Background job engine of the tracker: the worker entry point            *)
(* (src/unnamed/part_000), the queue handles (src/unnamed/part_003) and    *)
(* the store connection (src/unnamed/part_002).                            *)
(*                                                                         *)
(* The worker entry point builds two BullMQ workers on two queues, starts  *)
(* the master scheduler and installs the SIGTERM/SIGINT handlers.  The     *)
(* model follows the Node event loop: one action is one macrotask (a       *)
(* signal, a timer, an I/O completion) together with the promise           *)
(* continuations it releases.  What `new Worker(..)`, `new Queue(..)`,     *)
(* `setInterval` and `redis.quit()` do is the behaviour of the library     *)
(* call written at the mapped source line.                                 *)
(***************************************************************************)
EXTENDS Integers, Sequences, FiniteSets, TLC

(***************************************************************************)
(* Program constants                                                       *)
(***************************************************************************)
CHECK_SOURCE_QUEUE == "check-source"
NOTIFICATION_QUEUE == "notifications"
Queues == {CHECK_SOURCE_QUEUE, NOTIFICATION_QUEUE}

CheckSourceConcurrency == 5
NotificationConcurrency == 10
LimiterMax == 10
LimiterDuration == 1000

CheckSourceAttempts == 3
CheckSourceBackoffDelay == 5000
NotificationAttempts == 5
NotificationBackoffDelay == 1000

SCHEDULER_INTERVAL == 5 * 60 * 1000

\* retryStrategy of the store connection: delay per attempt, its cap, and the
\* number of attempts after which it gives up.
RetryDelayFactor == 200
RetryDelayCap == 5000
RetryCeiling == 20

\* The two workers of this process, and the check-source worker of a second
\* process running the same entry point against the same store.
CheckSourceWorker == "checkSourceWorker"
NotificationWorker == "notificationWorker"
PeerWorker == "peerCheckSourceWorker"
LocalWorkers == {CheckSourceWorker, NotificationWorker}
Workers == LocalWorkers \cup {PeerWorker}

QueueOf(w) ==
    IF w = NotificationWorker THEN NOTIFICATION_QUEUE ELSE CHECK_SOURCE_QUEUE

Concurrency(w) ==
    IF w = NotificationWorker THEN NotificationConcurrency
    ELSE CheckSourceConcurrency

\* Only the check-source worker is given a limiter.
HasLimiterAll(q) == TRUE
HasLimiter(q) == q = CHECK_SOURCE_QUEUE

AttemptsSwapped(q) ==
    IF q = NOTIFICATION_QUEUE THEN CheckSourceAttempts ELSE NotificationAttempts
Attempts(q) ==
    IF q = NOTIFICATION_QUEUE THEN NotificationAttempts ELSE CheckSourceAttempts

BackoffDelay(q) ==
    IF q = NOTIFICATION_QUEUE THEN NotificationBackoffDelay
    ELSE CheckSourceBackoffDelay

(***************************************************************************)
(* Bounds of the model                                                     *)
(***************************************************************************)
\* Termination signals delivered to the process.
MaxSignals == 2
\* Timer firings of the scheduler.
MaxCycles == 2
\* Calls of Queue.add in a run.
MaxEnqueues == 2
\* Jobs in the store in the process-lifecycle specification.
LifecycleJobs == 2

NULL == "null"
TIMER == "timer"

VARIABLES
    now,                \* clock of the store and the workers, in ms
    jobs,               \* job id -> job record held by the store
    wait,               \* queue -> FIFO list of waiting job ids
    limiter,            \* queue -> rate-limiter key: [count, expiresAt]
    starts,             \* queue -> times of the job starts of the last window
    running,            \* worker -> job ids its handler invocations hold
    emitted,            \* worker -> 'completed' and 'failed' events it has emitted
    closing,            \* worker -> close() has been called
    closed,             \* worker -> close() has resolved
    startPc,            \* position of startScheduler
    schedulerInterval,  \* the module-level timer handle
    timerArmed,         \* the interval timer is live in the runtime
    cyclesRunning,      \* runMasterScheduler invocations in progress
    cyclesStarted,      \* runMasterScheduler invocations started by the timer
    timerDue,           \* time of the next firing of the interval timer
    initialRun,         \* outcome of the initial runMasterScheduler()
    cycleLog,           \* errors logged by the timer callback
    retryAttempts,      \* reconnection attempts of the store client since it was ready
    retryDelays,        \* what retryStrategy returned, attempt by attempt
    enqueues,           \* the calls of Queue.add and what the caller got
    sdPc,               \* one position per shutdown() invocation
    redisStatus,        \* redis.status
    exited,             \* process.exit has been called
    follow,             \* rows of the follow table for one follower and target
    notification,       \* new_follower notifications created for the target
    activity,           \* user_followed activities logged for the follower
    followCalls,        \* one record per followUser call: its position and locals
    rateLimitStore,     \* key -> entry of the rate-limit map, or NoEntry
    rateLimitLog,       \* key -> results of checkRateLimit in the current window
    uncleaned,          \* the rate-limit map had cleanup never run
    libraryEntry,       \* the library entry row and the user row, as committed
    patchTx             \* one record per progress PATCH request

vars ==
    <<now, jobs, wait, limiter, starts, running, emitted, closing, closed, startPc,
      schedulerInterval, timerArmed, cyclesRunning, cyclesStarted, timerDue,
      initialRun, cycleLog, sdPc, redisStatus, exited, retryAttempts,
      retryDelays, enqueues, follow, notification, activity, followCalls,
      rateLimitStore, rateLimitLog, uncleaned, libraryEntry, patchTx>>

engineVars == <<now, jobs, wait, limiter, starts, running, emitted>>
workerVars == <<closing, closed>>
schedulerVars ==
    <<startPc, schedulerInterval, timerArmed, cyclesRunning, cyclesStarted,
      timerDue, initialRun, cycleLog>>
shutdownVars == <<sdPc, redisStatus, exited>>
connVars == <<retryAttempts, retryDelays, enqueues>>
followVars == <<follow, notification, activity, followCalls>>
rateLimitVars == <<rateLimitStore, rateLimitLog, uncleaned>>
progressVars == <<libraryEntry, patchTx>>
appVars == <<followVars, rateLimitVars, progressVars>>

JobIds == DOMAIN jobs

(***************************************************************************)
(* Helpers                                                                 *)
(***************************************************************************)
RECURSIVE Pow2(_)
Pow2(n) == IF n <= 0 THEN 1 ELSE 2 * Pow2(n - 1)

RECURSIVE SeqSum(_)
SeqSum(s) == IF s = <<>> THEN 0 ELSE Head(s) + SeqSum(Tail(s))

\* Number of positions of s holding x.
Occurrences(s, x) == Cardinality({i \in DOMAIN s : s[i] = x})

\* s without its first occurrence of x.
RECURSIVE RemoveFirst(_, _)
RemoveFirst(s, x) ==
    IF s = <<>> THEN <<>>
    ELSE IF Head(s) = x THEN Tail(s)
    ELSE <<Head(s)>> \o RemoveFirst(Tail(s), x)

\* Job ids of S in the order the store promotes them: by due time, then id.
RECURSIVE DueOrder(_)
DueOrder(S) ==
    IF S = {} THEN <<>>
    ELSE LET j == CHOOSE x \in S : \A y \in S :
                    \/ jobs[x].dueAt < jobs[y].dueAt
                    \/ (jobs[x].dueAt = jobs[y].dueAt /\ x <= y)
         IN  <<j>> \o DueOrder(S \ {j})

(***************************************************************************)
(* Queue handles and the store                                             *)
(***************************************************************************)
\* A job as the store holds it.  script is the handler's behaviour on this
\* job: its first `script` invocations fail, the next one succeeds.  invoked,
\* failedAt and backoffs record the handler invocations, the time of the last
\* failure and the retry delays applied.
\* lockedUntil is 0 while the holder of the job renews its lock, and
\* stalledCounter counts the times the job was found stalled.
NewJob(q, f) ==
    [queue |-> q, state |-> "waiting", attemptsMade |-> 0, script |-> f,
     invoked |-> 0, dueAt |-> 0, failedAt |-> 0, backoffs |-> <<>>,
     lockedUntil |-> 0, stalledCounter |-> 0]

NoLimiterKey == [count |-> 0, expiresAt |-> 0]

\* The failed attempt that brought attemptsMade to am is retried.
RetryAllowedOffByOne(q, am) == am <= Attempts(q)
RetryAllowedEarly(q, am) == am + 1 < Attempts(q)
RetryAllowed(q, am) == am < Attempts(q)

\* backoff: { type: 'exponential', delay }.
BackoffShifted(q, am) == BackoffDelay(q) * Pow2(am)
BackoffLinear(q, am) == BackoffDelay(q) * am
Backoff(q, am) == BackoffDelay(q) * Pow2(am - 1)

(***************************************************************************)
(* Worker engine                                                           *)
(***************************************************************************)
WorkerAlive(w) == w \in LocalWorkers => ~exited

\* concurrency: a job is fetched only while fewer than `concurrency`
\* handler invocations are in progress.
SlotFreeOffByOne(w) == Len(running[w]) <= Concurrency(w)
SlotFree(w) == Len(running[w]) < Concurrency(w)

\* limiter: { max, duration }: the store keeps one counter per queue.  The
\* start that finds no counter creates it with a time-to-live of `duration`;
\* every start increments it; no job starts while it has reached `max`.
LimiterLive(q) == now < limiter[q].expiresAt
LimiterPermitsOffByOne(q) ==
    ~HasLimiter(q) \/ ~LimiterLive(q) \/ limiter[q].count <= LimiterMax
LimiterPermits(q) ==
    ~HasLimiter(q) \/ ~LimiterLive(q) \/ limiter[q].count < LimiterMax

\* The delayed jobs of q whose delay has elapsed.
DueJobsAtOnce(q) ==
    {j \in JobIds : /\ jobs[j].queue = q
                    /\ jobs[j].state = "delayed"}
DueJobs(q) ==
    {j \in JobIds : /\ jobs[j].queue = q
                    /\ jobs[j].state = "delayed"
                    /\ jobs[j].dueAt <= now}

\* The wait list once the due delayed jobs have been promoted to its tail.
Promoted(q) == wait[q] \o DueOrder(DueJobs(q))

\* The claim takes the head of the wait list out of it, atomically.
WaitAfterClaimKept(waitq) == waitq
WaitAfterClaim(waitq) == Tail(waitq)

\* A worker whose close() has been called fetches no more jobs.
AcceptsJobsWhileClosing(w) == TRUE
AcceptsJobs(w) == ~closing[w]

ClaimJob(w) ==
    LET q == QueueOf(w)
        due == DueJobs(q)
        waitq == Promoted(q)
    IN  /\ WorkerAlive(w)
        /\ AcceptsJobs(w)
        /\ SlotFree(w)
        /\ LimiterPermits(q)
        /\ waitq # <<>>
        /\ LET j == Head(waitq)
           IN  /\ jobs' = [k \in JobIds |->
                            IF k = j
                            THEN [jobs[k] EXCEPT !.state = "active",
                                                 !.invoked = @ + 1,
                                                 !.dueAt = 0]
                            ELSE IF k \in due
                            THEN [jobs[k] EXCEPT !.state = "waiting", !.dueAt = 0]
                            ELSE jobs[k]]
               /\ wait' = [wait EXCEPT ![q] = WaitAfterClaim(waitq)]
               /\ running' = [running EXCEPT ![w] = Append(@, j)]
               /\ limiter' =
                    IF ~HasLimiter(q) THEN limiter
                    ELSE IF LimiterLive(q)
                    THEN [limiter EXCEPT ![q].count = @ + 1]
                    ELSE [limiter EXCEPT ![q] =
                            [count |-> 1, expiresAt |-> now + LimiterDuration]]
               /\ starts' = IF HasLimiter(q)
                            THEN [starts EXCEPT ![q] = Append(@, now)]
                            ELSE starts
        /\ UNCHANGED <<appVars, connVars, now, emitted, workerVars, schedulerVars, shutdownVars>>

\* The handler invocation holding j returns: the job is completed.
HandlerSucceeds(w, j) ==
    /\ WorkerAlive(w)
    /\ Occurrences(running[w], j) > 0
    /\ jobs[j].invoked > jobs[j].script
    /\ jobs' = [jobs EXCEPT ![j].state = "completed"]
    /\ running' = [running EXCEPT ![w] = RemoveFirst(@, j)]
    /\ emitted' = [emitted EXCEPT ![w].completed = @ + 1]
    /\ UNCHANGED <<appVars, connVars, now, wait, limiter, starts, workerVars, schedulerVars, shutdownVars>>

\* The worker emits 'failed' for the failed attempt that brought attemptsMade
\* to am, whether the job is retried or not.
EmitsFailedWhenFinal(q, am) == ~RetryAllowed(q, am)
EmitsFailed(q, am) == TRUE

\* The worker catches what the processor throws and emits 'failed', whose
\* listener logs: the error does not reach the process.
ExitedByHandlerError(w) == exited \/ w \in LocalWorkers
ExitedAfterHandlerError(w) == exited

\* The handler invocation holding j throws or rejects: the failure is
\* reported to the store, which retries the job after its backoff delay or
\* moves it to failed.
HandlerFails(w, j) ==
    LET q == jobs[j].queue
        am == jobs[j].attemptsMade + 1
    IN  /\ WorkerAlive(w)
        /\ Occurrences(running[w], j) > 0
        /\ jobs[j].invoked <= jobs[j].script
        /\ jobs' = [jobs EXCEPT ![j] =
                      IF RetryAllowed(q, am)
                      THEN [@ EXCEPT !.state = "delayed",
                                     !.attemptsMade = am,
                                     !.failedAt = now,
                                     !.dueAt = now + Backoff(q, am),
                                     !.backoffs = Append(@, Backoff(q, am))]
                      ELSE [@ EXCEPT !.state = "failed",
                                     !.attemptsMade = am,
                                     !.failedAt = now]]
        /\ running' = [running EXCEPT ![w] = RemoveFirst(@, j)]
        /\ emitted' = IF EmitsFailed(q, am)
                      THEN [emitted EXCEPT ![w].failed = @ + 1]
                      ELSE emitted
        /\ exited' = ExitedAfterHandlerError(w)
        /\ UNCHANGED <<appVars, connVars, now, wait, limiter, starts, workerVars, schedulerVars, sdPc,
                       redisStatus>>

\* d ms pass: an expired limiter key is gone, and the log of starts keeps
\* the starts of the last LimiterDuration ms.
Tick(d, horizon) ==
    /\ now + d <= horizon
    /\ now' = now + d
    /\ limiter' = [q \in Queues |->
                    IF limiter[q].expiresAt <= now' THEN NoLimiterKey
                    ELSE limiter[q]]
    /\ starts' = [q \in Queues |->
                    SelectSeq(starts[q], LAMBDA t : t > now' - LimiterDuration)]
    /\ UNCHANGED <<appVars, connVars, jobs, wait, running, emitted, workerVars, schedulerVars,
                   shutdownVars>>

(***************************************************************************)
(* Crash of the worker process and recovery of its jobs.  The workers are  *)
(* constructed without lockDuration, stalledInterval or maxStalledCount,   *)
(* so the engine's defaults apply: a worker renews the lock of each job it *)
(* holds while its process lives, and the stalled-job check of any live    *)
(* worker of the queue takes an active job whose lock has expired.         *)
(***************************************************************************)
\* Default time-to-live of a job lock, in ms, and the number of times a job
\* may be found stalled before the store fails it.
LockDuration == 30000
MaxStalledCount == 1

\* The process dies (kill -9, out of memory, an uncaught error) while its
\* handlers hold jobs: nothing is reported to the store, the jobs stay
\* active, and their locks, no longer renewed, run out at most LockDuration
\* later.
Crash ==
    /\ ~exited
    /\ exited' = TRUE
    /\ jobs' = [j \in JobIds |->
                  IF \E w \in LocalWorkers : Occurrences(running[w], j) > 0
                  THEN [jobs[j] EXCEPT !.lockedUntil = now + LockDuration]
                  ELSE jobs[j]]
    /\ running' = [w \in Workers |-> IF w \in LocalWorkers THEN <<>> ELSE running[w]]
    /\ UNCHANGED <<appVars, connVars, now, wait, limiter, starts, emitted, workerVars,
                   schedulerVars, sdPc, redisStatus>>

\* The supervisor starts the entry point again: a new process, whose
\* module-level state is the one the entry point constructs.  The store
\* keeps what it held.
Restart ==
    /\ exited
    /\ exited' = FALSE
    /\ closing' = [w \in Workers |-> FALSE]
    /\ closed' = [w \in Workers |-> FALSE]
    /\ startPc' = "initialRun"
    /\ schedulerInterval' = NULL
    /\ timerArmed' = FALSE
    /\ cyclesRunning' = 0
    /\ cyclesStarted' = 0
    /\ timerDue' = 0
    /\ initialRun' = "pending"
    /\ cycleLog' = [errors |-> 0, lastErrorAt |-> 0]
    /\ sdPc' = <<>>
    /\ redisStatus' = "ready"
    /\ retryAttempts' = 0
    /\ retryDelays' = <<>>
    /\ enqueues' = <<>>
    /\ UNCHANGED <<appVars, now, jobs, wait, limiter, starts, running, emitted>>

\* The lock of an active job whose holder is gone has run out.
LockExpiredAtOnce(j) == jobs[j].lockedUntil # 0
LockExpired(j) == jobs[j].lockedUntil # 0 /\ now >= jobs[j].lockedUntil

\* The active jobs of q that the stalled-job check finds without a lock.
Stalled(q) ==
    {j \in JobIds : /\ jobs[j].queue = q
                    /\ jobs[j].state = "active"
                    /\ LockExpired(j)}

\* A job found stalled goes back to the wait list, unless it has now been
\* found stalled more than maxStalledCount times: then it is failed.
StalledRetriedAlways(sc) == TRUE
StalledRetried(sc) == sc <= MaxStalledCount

\* The stalled-job check of a live worker w runs on its queue.
RecoverStalled(w) ==
    LET q == QueueOf(w)
        found == Stalled(q)
        back == {j \in found : StalledRetried(jobs[j].stalledCounter + 1)}
    IN  /\ WorkerAlive(w)
        /\ found # {}
        /\ jobs' = [j \in JobIds |->
                      IF j \in back
                      THEN [jobs[j] EXCEPT !.state = "waiting",
                                           !.lockedUntil = 0,
                                           !.stalledCounter = @ + 1]
                      ELSE IF j \in found
                      THEN [jobs[j] EXCEPT !.state = "failed",
                                           !.failedAt = now,
                                           !.lockedUntil = 0,
                                           !.stalledCounter = @ + 1]
                      ELSE jobs[j]]
        /\ wait' = [wait EXCEPT ![q] = DueOrder(back) \o @]
        /\ UNCHANGED <<appVars, connVars, now, limiter, starts, running, emitted, workerVars,
                       schedulerVars, shutdownVars>>

(***************************************************************************)
(* Scheduler loop: startScheduler                                          *)
(***************************************************************************)
\* try { await runMasterScheduler() } catch { log }: a throw of the initial run
\* is caught, and startScheduler goes on to arm the timer either way.
InitialRunUncaught(ok) == ok
InitialRunCaught(ok) == TRUE

\* The awaited initial runMasterScheduler() settles, by returning or by
\* throwing; startScheduler then arms the interval timer.
InitialRunSettles(ok) ==
    /\ ~exited
    /\ startPc = "initialRun"
    /\ initialRun' = IF ok THEN "ok" ELSE "threw"
    /\ IF InitialRunCaught(ok)
       THEN /\ startPc' = "armed"
            /\ schedulerInterval' = TIMER
            /\ timerArmed' = TRUE
            /\ timerDue' = now + SCHEDULER_INTERVAL
       ELSE /\ startPc' = "rejected"
            /\ UNCHANGED <<schedulerInterval, timerArmed, timerDue>>
    /\ UNCHANGED <<appVars, connVars, engineVars, workerVars, cyclesRunning, cyclesStarted, cycleLog,
                   shutdownVars>>

\* The interval timer fires: the callback starts a runMasterScheduler(), and
\* the timer is due again one interval later.
TimerFires ==
    /\ ~exited
    /\ timerArmed
    /\ now >= timerDue
    /\ cyclesStarted < MaxCycles
    /\ cyclesStarted' = cyclesStarted + 1
    /\ cyclesRunning' = cyclesRunning + 1
    /\ timerDue' = now + SCHEDULER_INTERVAL
    /\ UNCHANGED <<appVars, connVars, engineVars, workerVars, startPc, schedulerInterval, timerArmed,
                   initialRun, cycleLog, shutdownVars>>

\* try { await runMasterScheduler() } catch { log } in the timer callback: a
\* throw of the cycle does not leave the callback.
CycleErrorUncaught(ok) == ok
CycleErrorCaught(ok) == TRUE

\* A cycle started by the timer settles; a throw is logged.  An error that
\* left the callback would be an unhandled rejection, which ends the process.
CycleSettles(ok) ==
    /\ ~exited
    /\ cyclesRunning > 0
    /\ cyclesRunning' = cyclesRunning - 1
    /\ cycleLog' = IF ok THEN cycleLog
                   ELSE [errors |-> cycleLog.errors + 1, lastErrorAt |-> now]
    /\ exited' = IF CycleErrorCaught(ok) THEN exited ELSE TRUE
    /\ UNCHANGED <<appVars, connVars, engineVars, workerVars, startPc, schedulerInterval, timerArmed,
                   cyclesStarted, timerDue, initialRun, sdPc, redisStatus>>

(***************************************************************************)
(* Shutdown: shutdown(signal) and disconnectRedis                          *)
(***************************************************************************)
ShutdownAt(pcs, pc) == {i \in DOMAIN pcs : pcs[i].pc = pc}

\* Promise.all over the close() of both workers has resolved.
WorkersClosedAny(c) == \E w \in LocalWorkers : c[w]
WorkersClosed(c) == \A w \in LocalWorkers : c[w]

\* shutdown() calls process.exit(0) without disconnectRedis.
AfterCloseExits(pcs) ==
    IF ShutdownAt(pcs, "awaitClose") = {}
    THEN /\ sdPc' = pcs
         /\ UNCHANGED <<redisStatus, exited>>
    ELSE /\ sdPc' = [pcs EXCEPT
                        ![CHOOSE i \in ShutdownAt(pcs, "awaitClose") :
                            \A k \in ShutdownAt(pcs, "awaitClose") : i <= k].pc = "exited"]
         /\ exited' = TRUE
         /\ UNCHANGED redisStatus

\* disconnectRedis: if (redis.status === 'end') return.
AlreadyEndedNever(status) == FALSE
AlreadyEnded(status) == status = "end"

\* The continuation of every shutdown invocation waiting on the workers:
\* disconnectRedis returns at once when the connection has ended, and the
\* first continuation exits the process; otherwise each one issues a quit.
AfterClose(pcs) ==
    IF ShutdownAt(pcs, "awaitClose") = {}
    THEN /\ sdPc' = pcs
         /\ UNCHANGED <<redisStatus, exited>>
    ELSE IF AlreadyEnded(redisStatus)
    THEN /\ sdPc' = [pcs EXCEPT
                        ![CHOOSE i \in ShutdownAt(pcs, "awaitClose") :
                            \A k \in ShutdownAt(pcs, "awaitClose") : i <= k].pc = "exited"]
         /\ exited' = TRUE
         /\ UNCHANGED redisStatus
    ELSE /\ sdPc' = [i \in DOMAIN pcs |->
                        IF pcs[i].pc = "awaitClose"
                        THEN [pcs[i] EXCEPT !.pc = "awaitQuit"]
                        ELSE pcs[i]]
         /\ UNCHANGED <<redisStatus, exited>>

\* The handler invocations of this process that are executing.
InFlight == {j \in JobIds : \E w \in LocalWorkers : Occurrences(running[w], j) > 0}

\* A shutdown invocation at its first await (the signal name is only
\* logged); inflight records the handler invocations that were executing
\* when its signal arrived.
NewShutdown(sig) ==
    [pc |-> "awaitClose", quit |-> "none", inflight |-> InFlight]

\* A termination signal is delivered: shutdown(sig) runs up to its first
\* await, and through it when both workers have already closed.
Signal(sig) ==
    /\ ~exited
    /\ Len(sdPc) < MaxSignals
    /\ timerArmed' = IF schedulerInterval # NULL THEN FALSE ELSE timerArmed
    /\ timerDue' = IF schedulerInterval # NULL THEN 0 ELSE timerDue
    /\ closing' = [w \in Workers |-> IF w \in LocalWorkers THEN TRUE ELSE closing[w]]
    /\ IF WorkersClosed(closed)
       THEN AfterClose(Append(sdPc, NewShutdown(sig)))
       ELSE /\ sdPc' = Append(sdPc, NewShutdown(sig))
            /\ UNCHANGED <<redisStatus, exited>>
    /\ UNCHANGED <<appVars, connVars, engineVars, closed, startPc, schedulerInterval, cyclesRunning,
                   cyclesStarted, initialRun, cycleLog>>

\* close() is called without the force argument: it waits for the handler
\* invocations of the worker that are executing.
DrainedForced(w) == TRUE
Drained(w) == running[w] = <<>>

\* close() of a worker resolves once none of its handlers is running; the
\* shutdown invocations continue when that was the last worker to close.
WorkerCloseResolves(w) ==
    /\ ~exited
    /\ w \in LocalWorkers
    /\ closing[w]
    /\ ~closed[w]
    /\ Drained(w)
    /\ closed' = [closed EXCEPT ![w] = TRUE]
    /\ IF WorkersClosed(closed')
       THEN AfterClose(sdPc)
       ELSE UNCHANGED shutdownVars
    /\ UNCHANGED <<appVars, connVars, engineVars, closing, schedulerVars>>

\* try { await redis.quit() } catch { log; redis.disconnect() }: a rejected
\* quit does not leave disconnectRedis.
QuitErrorUncaught(ok) == ok
QuitErrorCaught(ok) == TRUE

\* The first pending redis.quit() settles.  Resolved: the connection is
\* closed.  Rejected: the catch forces redis.disconnect().  Either way
\* disconnectRedis returns and the shutdown invocation calls process.exit(0).
\* An error that left disconnectRedis would reject shutdown() before its
\* process.exit.
QuitSettles(ok) ==
    /\ ~exited
    /\ ShutdownAt(sdPc, "awaitQuit") # {}
    /\ LET i == CHOOSE x \in ShutdownAt(sdPc, "awaitQuit") :
                    \A k \in ShutdownAt(sdPc, "awaitQuit") : x <= k
       IN  sdPc' = [sdPc EXCEPT
                      ![i].pc = IF QuitErrorCaught(ok) THEN "exited" ELSE "rejected",
                      ![i].quit = IF ok THEN "quit" ELSE "forced"]
    /\ redisStatus' = IF QuitErrorCaught(ok) THEN "end" ELSE redisStatus
    /\ exited' = QuitErrorCaught(ok)
    /\ UNCHANGED <<appVars, connVars, engineVars, workerVars, schedulerVars>>

(***************************************************************************)
(* Store connection: the shared client, its retryStrategy, and Queue.add   *)
(*                                                                         *)
(* The client is ioredis: when the connection closes it calls              *)
(* retryStrategy(++retryAttempts); a number is the delay before the next   *)
(* attempt, anything else ends the connection and rejects the commands     *)
(* that were waiting.  With maxRetriesPerRequest null a command issued     *)
(* while the client is reconnecting waits in the offline queue.            *)
(***************************************************************************)
Min(a, b) == IF a < b THEN a ELSE b

\* retryStrategy(times): the delay is computed first, then dropped when the
\* ceiling is passed.
RetryStrategy(times) ==
    LET delay == Min(times * RetryDelayFactor, RetryDelayCap)
    IN  IF times > RetryCeiling
        THEN [giveUp |-> TRUE]
        ELSE [giveUp |-> FALSE, delay |-> delay]

\* The call of Queue.add(q): what the connection was when it was issued,
\* what the caller got, and the job it stored (0: none).
NewEnqueue(q, outcome) ==
    [queue |-> q, issued |-> redisStatus, outcome |-> outcome, job |-> 0]

\* The store takes the commands of the pending calls, in the order they were
\* issued: each adds a job to the tail of its wait list and resolves.
RECURSIVE FlushOfflineQueue(_, _, _, _)
FlushOfflineQueue(es, js, ws, i) ==
    IF i > Len(es) THEN [enqueues |-> es, jobs |-> js, wait |-> ws]
    ELSE IF es[i].outcome # "pending" THEN FlushOfflineQueue(es, js, ws, i + 1)
    ELSE LET id == Len(js) + 1
         IN  FlushOfflineQueue(
                [es EXCEPT ![i].outcome = "resolved", ![i].job = id],
                Append(js, NewJob(es[i].queue, 0)),
                [ws EXCEPT ![es[i].queue] = Append(@, id)],
                i + 1)

\* The pending calls are rejected with the error of the closed connection.
RejectOfflineQueue(es) ==
    [i \in DOMAIN es |->
        IF es[i].outcome = "pending" THEN [es[i] EXCEPT !.outcome = "rejected"]
        ELSE es[i]]

\* A caller adds a job to queue q.  Connection ready: the job is stored and
\* the call resolves.  Reconnecting: the command waits.  Ended: the call is
\* rejected.
Enqueue(q) ==
    /\ ~exited
    /\ Len(enqueues) < MaxEnqueues
    /\ IF redisStatus = "ready"
       THEN LET r == FlushOfflineQueue(Append(enqueues, NewEnqueue(q, "pending")),
                                       jobs, wait, 1)
            IN  /\ enqueues' = r.enqueues
                /\ jobs' = r.jobs
                /\ wait' = r.wait
       ELSE /\ enqueues' = Append(enqueues,
                    NewEnqueue(q, IF redisStatus = "end" THEN "rejected" ELSE "pending"))
            /\ UNCHANGED <<jobs, wait>>
    /\ UNCHANGED <<appVars, now, limiter, starts, running, emitted, workerVars, schedulerVars,
                   shutdownVars, retryAttempts, retryDelays>>

\* The connection closes, lost while ready or after a failed attempt to
\* reconnect: retryStrategy decides.  On a delay the client reconnects
\* later; otherwise it logs, ends the connection and rejects what waited.
\* The 'error' listener of the client only logs.
ConnectionCloses ==
    /\ ~exited
    /\ redisStatus \in {"ready", "reconnecting"}
    /\ LET times == retryAttempts + 1
           r == RetryStrategy(times)
       IN  /\ retryAttempts' = times
           /\ retryDelays' = Append(retryDelays, r)
           /\ redisStatus' = IF r.giveUp THEN "end" ELSE "reconnecting"
           /\ enqueues' = IF r.giveUp THEN RejectOfflineQueue(enqueues) ELSE enqueues
    /\ UNCHANGED <<appVars, engineVars, workerVars, schedulerVars, sdPc, exited>>

\* An attempt to reconnect succeeds: the attempts are counted from zero
\* again and the commands that waited are sent.
ConnectionReady ==
    /\ ~exited
    /\ redisStatus = "reconnecting"
    /\ redisStatus' = "ready"
    /\ retryAttempts' = 0
    /\ retryDelays' = <<>>
    /\ LET r == FlushOfflineQueue(enqueues, jobs, wait, 1)
       IN  /\ enqueues' = r.enqueues
           /\ jobs' = r.jobs
           /\ wait' = r.wait
    /\ UNCHANGED <<appVars, now, limiter, starts, running, emitted, workerVars, schedulerVars,
                   sdPc, exited>>

(***************************************************************************)
(* followUser(followerId, targetUsername), for one follower and the users  *)
(* a target name can resolve to.  Every await of the function is a step;   *)
(* the database is shared by all calls.                                    *)
(***************************************************************************)
\* isNewFollow: Date.now() - created_at < 1000.
NewFollowWindow == 1000

\* followUser calls in a run.
MaxFollowCalls == 2

\* A call at its first await; target is what the name resolves to: another
\* user, the follower, or nobody.
NewFollowCall(target) ==
    [pc |-> "findTarget", target |-> target, seen |-> FALSE, created |-> FALSE,
     created_at |-> 0, isNewFollow |-> FALSE, result |-> "none"]

FollowUser(target) ==
    /\ Len(followCalls) < MaxFollowCalls
    /\ followCalls' = Append(followCalls, NewFollowCall(target))
    /\ UNCHANGED <<follow, notification, activity, rateLimitVars, progressVars, connVars,
                   engineVars, workerVars, schedulerVars, shutdownVars>>

\* prisma.user.findFirst settles: no target and the follower as their own
\* target make the call throw before it touches the follow table.
FindTargetSettles(c) ==
    /\ c \in DOMAIN followCalls
    /\ followCalls[c].pc = "findTarget"
    /\ followCalls' = [followCalls EXCEPT ![c] =
            IF @.target = "nobody"
            THEN [@ EXCEPT !.pc = "threw", !.result = "Target user not found"]
            ELSE IF @.target = "follower"
            THEN [@ EXCEPT !.pc = "threw", !.result = "Cannot follow yourself"]
            ELSE [@ EXCEPT !.pc = "upsert"]]
    /\ UNCHANGED <<follow, notification, activity, rateLimitVars, progressVars, connVars,
                   engineVars, workerVars, schedulerVars, shutdownVars>>

\* The unique constraint follower_id_following_id: an insert for a pair
\* that has a row is refused with P2002.
UniqueViolationNever(rows) == FALSE
UniqueViolation(rows) == rows # <<>>

\* prisma.follow.upsert looks the pair up.  Whether the client then sends
\* one atomic statement or a separate write is the client's choice: here
\* the write is a separate step, which may but need not follow at once.
UpsertReads(c) ==
    /\ c \in DOMAIN followCalls
    /\ followCalls[c].pc = "upsert"
    /\ followCalls' = [followCalls EXCEPT ![c].pc = "upsertWrite",
                                          ![c].seen = (follow # <<>>)]
    /\ UNCHANGED <<follow, notification, activity, rateLimitVars, progressVars, connVars,
                   engineVars, workerVars, schedulerVars, shutdownVars>>

\* The write of the upsert.  Row seen: update {} changes nothing and the row
\* is returned.  No row seen: the row is created with created_at at the
\* database's clock, unless another call has created it since; then P2002
\* is caught and the call looks the existing row up.
UpsertWrites(c) ==
    /\ c \in DOMAIN followCalls
    /\ followCalls[c].pc = "upsertWrite"
    /\ IF followCalls[c].seen
       THEN /\ followCalls' = [followCalls EXCEPT ![c].pc = "upserted",
                                                 ![c].created_at = follow[1].created_at]
            /\ UNCHANGED follow
       ELSE IF UniqueViolation(follow)
       THEN /\ followCalls' = [followCalls EXCEPT ![c].pc = "findExisting"]
            /\ UNCHANGED follow
       ELSE /\ follow' = Append(follow, [created_at |-> now])
            /\ followCalls' = [followCalls EXCEPT ![c].pc = "upserted",
                                                 ![c].created = TRUE,
                                                 ![c].created_at = now]
    /\ UNCHANGED <<notification, activity, rateLimitVars, progressVars, connVars,
                   engineVars, workerVars, schedulerVars, shutdownVars>>

\* The follow was created less than NewFollowWindow ms before now.
IsNewFollow(call, t) == t - call.created_at < NewFollowWindow

\* The call resumes after the upsert and decides, by the age of the row it
\* was given, whether to notify.
UpsertSettles(c) ==
    /\ c \in DOMAIN followCalls
    /\ followCalls[c].pc = "upserted"
    /\ followCalls' = [followCalls EXCEPT ![c] =
            IF IsNewFollow(@, now)
            THEN [@ EXCEPT !.pc = "notify", !.isNewFollow = TRUE]
            ELSE [@ EXCEPT !.pc = "returned", !.result = "follow"]]
    /\ UNCHANGED <<follow, notification, activity, rateLimitVars, progressVars, connVars,
                   engineVars, workerVars, schedulerVars, shutdownVars>>

\* prisma.notification.create for the target.
CreateNotification(c) ==
    /\ c \in DOMAIN followCalls
    /\ followCalls[c].pc = "notify"
    /\ notification' = notification + 1
    /\ followCalls' = [followCalls EXCEPT ![c].pc = "logActivity"]
    /\ UNCHANGED <<follow, activity, rateLimitVars, progressVars, connVars,
                   engineVars, workerVars, schedulerVars, shutdownVars>>

\* prisma.activity.create for the follower; the call returns the follow.
CreateActivity(c) ==
    /\ c \in DOMAIN followCalls
    /\ followCalls[c].pc = "logActivity"
    /\ activity' = activity + 1
    /\ followCalls' = [followCalls EXCEPT ![c].pc = "returned", ![c].result = "follow"]
    /\ UNCHANGED <<follow, notification, rateLimitVars, progressVars, connVars,
                   engineVars, workerVars, schedulerVars, shutdownVars>>

\* catch (P2002): prisma.follow.findUnique returns the row that is there.
FindExisting(c) ==
    /\ c \in DOMAIN followCalls
    /\ followCalls[c].pc = "findExisting"
    /\ followCalls' = [followCalls EXCEPT ![c].pc = "returned",
                                          ![c].created_at = follow[1].created_at,
                                          ![c].result = "follow"]
    /\ UNCHANGED <<follow, notification, activity, rateLimitVars, progressVars, connVars,
                   engineVars, workerVars, schedulerVars, shutdownVars>>

FollowInit ==
    /\ follow = <<>>
    /\ notification = 0
    /\ activity = 0
    /\ followCalls = <<>>

(***************************************************************************)
(* Rate limiting: RateLimitStore, checkRateLimit, clearRateLimit and       *)
(* checkAuthRateLimit.  The functions are synchronous: a call is one step. *)
(***************************************************************************)
\* checkAuthRateLimit: 5 attempts per 60000 ms.
AuthMaxRequests == 5
AuthWindowMs == 60000

\* The callers of the auth endpoints.
Ips == {"ip1", "ip2"}

\* The key `auth:${ip}`.
AuthKey(ip) == <<"auth", ip>>
RateLimitKeys == {AuthKey(ip) : ip \in Ips}

\* The map has no entry for a key (an entry has a count of 1 or more).
NoEntry == [count |-> 0, resetTime |-> 0]

\* now > record.resetTime: the window of the record is over.
WindowOverAtReset(record, t) == t >= record.resetTime
WindowOver(record, t) == t > record.resetTime

\* record.count >= maxRequests: the call is refused.
Refused(record, maxRequests) == record.count >= maxRequests

\* record.count++: the entry of an accepted call inside a window.
AdmittedSliding(record, t, windowMs) ==
    [count |-> record.count + 1, resetTime |-> t + windowMs]
Admitted(record, t, windowMs) == [record EXCEPT !.count = @ + 1]

\* checkRateLimit(key, maxRequests, windowMs) at time t on map m: what it
\* returns and the map it leaves.
CheckRateLimit(m, key, maxRequests, windowMs, t) ==
    LET record == m[key]
    IN  IF record = NoEntry \/ WindowOver(record, t)
        THEN [result |-> TRUE,
              map |-> [m EXCEPT ![key] = [count |-> 1, resetTime |-> t + windowMs]]]
        ELSE IF Refused(record, maxRequests)
        THEN [result |-> FALSE, map |-> m]
        ELSE [result |-> TRUE,
              map |-> [m EXCEPT ![key] = Admitted(record, t, windowMs)]]

\* cleanup(): now > entry.resetTime, the entry is deleted.
StaleAtReset(entry, t) == t >= entry.resetTime
Stale(entry, t) == t > entry.resetTime

CleanedUp(m, t) ==
    [k \in DOMAIN m |-> IF m[k] # NoEntry /\ Stale(m[k], t) THEN NoEntry ELSE m[k]]

\* Calls of checkRateLimit for one key followed in one window.
MaxWindowCalls == 7

\* The record of the calls for a key: the window the latest call fell in,
\* reckoned from the calls alone (a call opens a window when none was
\* opened, or the one opened is past its reset time, or the key was
\* cleared), the results of the calls in it, the latest result, the result
\* the same call had on the map that is never cleaned, and whether cleanup
\* had deleted the entry the latest call would have found.
NoCalls ==
    [resetTime |-> -1, window |-> <<>>, last |-> NULL, lastUncleaned |-> NULL,
     afterCleanup |-> FALSE]

Logged(log, result, resultUncleaned, windowMs, t) ==
    IF log.resetTime < 0 \/ t > log.resetTime
    THEN [resetTime |-> t + windowMs, window |-> <<result>>,
          last |-> result, lastUncleaned |-> resultUncleaned,
          afterCleanup |-> FALSE]
    ELSE [log EXCEPT !.window = Append(@, result),
                     !.last = result,
                     !.lastUncleaned = resultUncleaned]

\* checkAuthRateLimit(ip).
CheckAuthRateLimit(ip) ==
    LET key == AuthKey(ip)
        r == CheckRateLimit(rateLimitStore, key, AuthMaxRequests, AuthWindowMs, now)
        u == CheckRateLimit(uncleaned, key, AuthMaxRequests, AuthWindowMs, now)
    IN  /\ Len(rateLimitLog[key].window) < MaxWindowCalls
        /\ rateLimitStore' = r.map
        /\ uncleaned' = u.map
        /\ rateLimitLog' = [rateLimitLog EXCEPT ![key] =
                [Logged(@, r.result, u.result, AuthWindowMs, now)
                    EXCEPT !.afterCleanup =
                        (rateLimitStore[key] = NoEntry /\ uncleaned[key] # NoEntry)]]
        /\ UNCHANGED <<followVars, progressVars, connVars, engineVars, workerVars,
                       schedulerVars, shutdownVars>>

\* clearRateLimit(key).
ClearRateLimit(key) ==
    /\ rateLimitStore[key] # NoEntry \/ uncleaned[key] # NoEntry
    /\ rateLimitStore' = [rateLimitStore EXCEPT ![key] = NoEntry]
    /\ uncleaned' = [uncleaned EXCEPT ![key] = NoEntry]
    /\ rateLimitLog' = [rateLimitLog EXCEPT ![key] = NoCalls]
    /\ UNCHANGED <<followVars, progressVars, connVars, engineVars, workerVars,
                   schedulerVars, shutdownVars>>

\* The cleanup timer of the store fires.  The store is constructed when its
\* module is loaded, at no fixed time before the calls, so the timer may
\* fire between any two of them.
Cleanup ==
    /\ rateLimitStore' = CleanedUp(rateLimitStore, now)
    /\ rateLimitStore' # rateLimitStore
    /\ UNCHANGED <<rateLimitLog, uncleaned, followVars, progressVars, connVars, engineVars,
                   workerVars, schedulerVars, shutdownVars>>

RateLimitInit ==
    /\ rateLimitStore = [k \in RateLimitKeys |-> NoEntry]
    /\ uncleaned = [k \in RateLimitKeys |-> NoEntry]
    /\ rateLimitLog = [k \in RateLimitKeys |-> NoCalls]

(***************************************************************************)
(* PATCH /api/library/[id]/progress, for one library entry of one user.    *)
(* The body of prisma.$transaction is an interactive transaction at the    *)
(* database's default isolation (no isolationLevel is passed): each        *)
(* statement reads what is committed when it runs, an update locks its row *)
(* until the transaction ends, and two transactions may run interleaved.   *)
(***************************************************************************)
\* chapterNumber > 100000 is refused.
ChapterLimit == 100000

\* PATCH requests in a run, and the highest chapter a request names.
MaxPatchRequests == 2
MaxChapter == 2

\* The chapter numbers requests carry: valid ones, a negative one and one
\* over the limit.
ChapterInputs == (0..MaxChapter) \cup {-1, ChapterLimit + 1}

\* The validation of the body: a non-negative number up to the limit.
ValidChapter(n) == n >= 0 /\ ~(n > ChapterLimit)

\* A request is received: an invalid chapter number is answered with 400
\* before any transaction; otherwise the transaction begins.
Patch(chapterNumber) ==
    /\ Len(patchTx) < MaxPatchRequests
    /\ patchTx' = Append(patchTx,
            [pc |-> IF ValidChapter(chapterNumber) THEN "findEntry" ELSE "status400",
             chapterNumber |-> chapterNumber, currentLastRead |-> 0,
             isNewChapter |-> FALSE, xp |-> 0, totalXpGained |-> 0])
    /\ UNCHANGED <<libraryEntry, followVars, rateLimitVars, connVars, engineVars,
                   workerVars, schedulerVars, shutdownVars>>

\* isNewChapter = chapterNumber > currentLastRead.
IsNewChapter(chapterNumber, currentLastRead) == chapterNumber > currentLastRead

\* 1. tx.libraryEntry.findUnique: the entry as committed.
FindEntry(t) ==
    /\ t \in DOMAIN patchTx
    /\ patchTx[t].pc = "findEntry"
    /\ patchTx' = [patchTx EXCEPT
            ![t].pc = "findUser",
            ![t].currentLastRead = libraryEntry.last_read_chapter,
            ![t].isNewChapter =
                IsNewChapter(patchTx[t].chapterNumber, libraryEntry.last_read_chapter)]
    /\ UNCHANGED <<libraryEntry, followVars, rateLimitVars, connVars, engineVars,
                   workerVars, schedulerVars, shutdownVars>>

\* totalXpGained, counted in rewards: one reward is XP_PER_CHAPTER plus the
\* streak bonus.
TotalXpGained(isNewChapter) == IF isNewChapter THEN 1 ELSE 0

\* 2. tx.user.findUnique: the profile as committed, and the XP to grant.
FindUser(t) ==
    /\ t \in DOMAIN patchTx
    /\ patchTx[t].pc = "findUser"
    /\ patchTx' = [patchTx EXCEPT
            ![t].pc = "updateEntry",
            ![t].xp = libraryEntry.xp,
            ![t].totalXpGained = TotalXpGained(patchTx[t].isNewChapter)]
    /\ UNCHANGED <<libraryEntry, followVars, rateLimitVars, connVars, engineVars,
                   workerVars, schedulerVars, shutdownVars>>

\* The transactions that have updated the entry row and not yet ended.
HoldsEntryRow == {t \in DOMAIN patchTx : patchTx[t].pc \in {"updateUser", "commit"}}

\* 3. tx.libraryEntry.update waits for the row, then writes
\* last_read_chapter: the request's chapter when it was new, else the value
\* the transaction read.
UpdateEntry(t) ==
    /\ t \in DOMAIN patchTx
    /\ patchTx[t].pc = "updateEntry"
    /\ HoldsEntryRow = {}
    /\ patchTx' = [patchTx EXCEPT ![t].pc = "updateUser"]
    /\ UNCHANGED <<libraryEntry, followVars, rateLimitVars, connVars, engineVars,
                   workerVars, schedulerVars, shutdownVars>>

\* 4. tx.user.update: xp is written as the value read plus the XP gained,
\* chapters_read is incremented in the database.
UpdateUser(t) ==
    /\ t \in DOMAIN patchTx
    /\ patchTx[t].pc = "updateUser"
    /\ patchTx' = [patchTx EXCEPT ![t].pc = "commit"]
    /\ UNCHANGED <<libraryEntry, followVars, rateLimitVars, connVars, engineVars,
                   workerVars, schedulerVars, shutdownVars>>

\* The callback returns and the transaction commits: its writes become the
\* committed rows.
Commit(t) ==
    /\ t \in DOMAIN patchTx
    /\ patchTx[t].pc = "commit"
    /\ libraryEntry' =
            [last_read_chapter |->
                IF patchTx[t].isNewChapter THEN patchTx[t].chapterNumber
                ELSE patchTx[t].currentLastRead,
             xp |-> patchTx[t].xp + patchTx[t].totalXpGained,
             chapters_read |->
                libraryEntry.chapters_read + (IF patchTx[t].isNewChapter THEN 1 ELSE 0)]
    /\ patchTx' = [patchTx EXCEPT ![t].pc = "status200"]
    /\ UNCHANGED <<followVars, rateLimitVars, connVars, engineVars, workerVars,
                   schedulerVars, shutdownVars>>

ProgressInit ==
    /\ libraryEntry = [last_read_chapter |-> 0, xp |-> 0, chapters_read |-> 0]
    /\ patchTx = <<>>

\* The application outside the worker process, before any request.
AppInit ==
    /\ FollowInit
    /\ RateLimitInit
    /\ ProgressInit

(***************************************************************************)
(* The process: workers, scheduler and signal handlers of one entry point  *)
(***************************************************************************)
JobInputs(n) ==
    [1..n -> {NewJob(q, f) : q \in Queues, f \in {0, 1}}]

\* The wait list of q: its waiting jobs in the order they were added.
RECURSIVE WaitList(_, _, _)
WaitList(js, q, i) ==
    IF i > Len(js) THEN <<>>
    ELSE (IF js[i].queue = q THEN <<i>> ELSE <<>>) \o WaitList(js, q, i + 1)

EngineInit(js) ==
    /\ now = 0
    /\ jobs = js
    /\ wait = [q \in Queues |-> WaitList(js, q, 1)]
    /\ limiter = [q \in Queues |-> NoLimiterKey]
    /\ starts = [q \in Queues |-> <<>>]
    /\ running = [w \in Workers |-> <<>>]
    /\ emitted = [w \in Workers |-> [completed |-> 0, failed |-> 0]]

\* The state when the entry point has been evaluated: the workers are
\* listening and startScheduler is awaiting its initial run.
ProcessInit ==
    /\ closing = [w \in Workers |-> FALSE]
    /\ closed = [w \in Workers |-> FALSE]
    /\ startPc = "initialRun"
    /\ schedulerInterval = NULL
    /\ timerArmed = FALSE
    /\ cyclesRunning = 0
    /\ cyclesStarted = 0
    /\ timerDue = 0
    /\ initialRun = "pending"
    /\ cycleLog = [errors |-> 0, lastErrorAt |-> 0]
    /\ sdPc = <<>>
    /\ redisStatus = "ready"
    /\ exited = FALSE
    /\ retryAttempts = 0
    /\ retryDelays = <<>>
    /\ enqueues = <<>>

Init ==
    /\ \E js \in JobInputs(LifecycleJobs) : EngineInit(js)
    /\ ProcessInit
    /\ AppInit

Next ==
    \/ \E w \in Workers : ClaimJob(w)
    \/ \E w \in Workers, j \in JobIds : HandlerSucceeds(w, j)
    \/ \E w \in Workers, j \in JobIds : HandlerFails(w, j)
    \/ \E ok \in BOOLEAN : InitialRunSettles(ok)
    \/ \E sig \in {"SIGTERM", "SIGINT"} : Signal(sig)
    \/ \E w \in LocalWorkers : WorkerCloseResolves(w)
    \/ \E ok \in BOOLEAN : QuitSettles(ok)

Spec == Init /\ [][Next]_vars

\* The process with its progress: a handler in progress returns or throws,
\* close() of a drained worker resolves, and the store answers or rejects a
\* quit.
Fairness ==
    /\ WF_vars(\E w \in LocalWorkers, j \in JobIds :
                    HandlerSucceeds(w, j) \/ HandlerFails(w, j))
    /\ WF_vars(\E w \in LocalWorkers : WorkerCloseResolves(w))
    /\ WF_vars(\E ok \in BOOLEAN : QuitSettles(ok))

SpecLive == Init /\ [][Next]_vars /\ Fairness

(***************************************************************************)
(* The scheduler and the shutdown, the clock running: the timer cycles do  *)
(* not touch the workers, so the queues are left empty here                *)
(***************************************************************************)
SchedulerHorizon == MaxCycles * SCHEDULER_INTERVAL

InitScheduler ==
    /\ EngineInit(<<>>)
    /\ ProcessInit
    /\ AppInit

NextScheduler ==
    \/ \E ok \in BOOLEAN : InitialRunSettles(ok)
    \/ TimerFires
    \/ \E ok \in BOOLEAN : CycleSettles(ok)
    \/ Tick(SCHEDULER_INTERVAL, SchedulerHorizon)
    \/ \E sig \in {"SIGTERM", "SIGINT"} : Signal(sig)
    \/ \E w \in LocalWorkers : WorkerCloseResolves(w)
    \/ \E ok \in BOOLEAN : QuitSettles(ok)

SpecScheduler == InitScheduler /\ [][NextScheduler]_vars

(***************************************************************************)
(* The store connection and the producers of jobs                          *)
(***************************************************************************)
InitConnection ==
    /\ EngineInit(<<>>)
    /\ ProcessInit
    /\ AppInit

NextConnection ==
    \/ \E q \in Queues : Enqueue(q)
    \/ ConnectionCloses
    \/ ConnectionReady

SpecConnection == InitConnection /\ [][NextConnection]_vars

(***************************************************************************)
(* The shutdown and the store connection: the connection may be lost,      *)
(* restored or given up before and while disconnectRedis runs              *)
(***************************************************************************)
InitDisconnect ==
    /\ EngineInit(<<>>)
    /\ ProcessInit
    /\ AppInit

NextDisconnect ==
    \/ \E sig \in {"SIGTERM", "SIGINT"} : Signal(sig)
    \/ \E w \in LocalWorkers : WorkerCloseResolves(w)
    \/ \E ok \in BOOLEAN : QuitSettles(ok)
    \/ ConnectionCloses
    \/ ConnectionReady

SpecDisconnect == InitDisconnect /\ [][NextDisconnect]_vars

(***************************************************************************)
(* The worker engine alone: one queue full of jobs, the clock running      *)
(***************************************************************************)
\* Clock ticks per limiter window, and ticks in a run.
TicksPerWindow == 2
EngineTicks == 2
\* Jobs whose handler fails, among the jobs of the engine specification.
EngineFailingJobs == 1

EngineStep == LimiterDuration \div TicksPerWindow
EngineHorizon == EngineTicks * EngineStep

\* Enough jobs to fill every slot and every limiter window, and some more.
EngineJobs(q) ==
    IF HasLimiter(q) THEN LimiterMax + 2
    ELSE Concurrency(NotificationWorker) + 1

\* The handler fails once on each of the first EngineFailingJobs jobs.
EngineInputs(q) ==
    {[i \in 1..EngineJobs(q) |-> NewJob(q, IF i <= EngineFailingJobs THEN 1 ELSE 0)]}

InitEngine ==
    /\ \E q \in Queues : \E js \in EngineInputs(q) : EngineInit(js)
    /\ ProcessInit
    /\ AppInit

NextEngine ==
    \/ \E w \in LocalWorkers : ClaimJob(w)
    \/ \E w \in LocalWorkers, j \in JobIds : HandlerSucceeds(w, j)
    \/ \E w \in LocalWorkers, j \in JobIds : HandlerFails(w, j)
    \/ Tick(EngineStep, EngineHorizon)

SpecEngine == InitEngine /\ [][NextEngine]_vars

(***************************************************************************)
(* Retry and backoff: one job followed through all of its attempts         *)
(***************************************************************************)
\* Jobs in the store in the retry specification.
RetryJobs == 1

\* The clock advances by the shortest configured delay, up to the longest
\* total of retry delays a job can accumulate.
RetryStep == NotificationBackoffDelay
RetryHorizon == BackoffDelay(NOTIFICATION_QUEUE) * (Pow2(Attempts(NOTIFICATION_QUEUE) - 1) - 1)

\* script = Attempts(q): the handler fails on every invocation the job gets.
RetryInputs ==
    [1..RetryJobs -> {NewJob(q, f) : q \in Queues, f \in 0..NotificationAttempts}
                        \ {NewJob(CHECK_SOURCE_QUEUE, f) : f \in (CheckSourceAttempts + 1)..NotificationAttempts}]

InitRetry ==
    /\ \E js \in RetryInputs : EngineInit(js)
    /\ ProcessInit
    /\ AppInit

NextRetry ==
    \/ \E w \in LocalWorkers : ClaimJob(w)
    \/ \E w \in LocalWorkers, j \in JobIds : HandlerSucceeds(w, j)
    \/ \E w \in LocalWorkers, j \in JobIds : HandlerFails(w, j)
    \/ Tick(RetryStep, RetryHorizon)

SpecRetry == InitRetry /\ [][NextRetry]_vars

(***************************************************************************)
(* Crashes: the process dies and is started again while jobs are active    *)
(***************************************************************************)
\* Jobs in the store, and lock durations that pass, in the crash
\* specification.
CrashJobs == 1
CrashTicks == 2

CrashHorizon == CrashTicks * LockDuration

InitCrash ==
    /\ \E js \in JobInputs(CrashJobs) : EngineInit(js)
    /\ ProcessInit
    /\ AppInit

NextCrash ==
    \/ \E w \in Workers : ClaimJob(w)
    \/ \E w \in Workers, j \in JobIds : HandlerSucceeds(w, j)
    \/ \E w \in Workers, j \in JobIds : HandlerFails(w, j)
    \/ Crash
    \/ Restart
    \/ \E w \in Workers : RecoverStalled(w)
    \/ Tick(LockDuration, CrashHorizon)

SpecCrash == InitCrash /\ [][NextCrash]_vars

(***************************************************************************)
(* The two workers of the process side by side: the check-source queue     *)
(* holds enough jobs to take every slot and the whole budget of a limiter  *)
(* window, the notifications queue holds a few                             *)
(***************************************************************************)
\* Jobs on the notifications queue in the two-worker specification.
SideBySideNotifications == 2

\* One check-source job more than the limiter lets start in a window; the
\* handler fails once on the first job of each queue.
SideBySideInputs ==
    {[i \in 1..(LimiterMax + 1 + SideBySideNotifications) |->
        NewJob(IF i <= LimiterMax + 1 THEN CHECK_SOURCE_QUEUE ELSE NOTIFICATION_QUEUE,
               IF i = 1 \/ i = LimiterMax + 2 THEN 1 ELSE 0)]}

InitSideBySide ==
    /\ \E js \in SideBySideInputs : EngineInit(js)
    /\ ProcessInit
    /\ AppInit

NextSideBySide ==
    \/ \E w \in LocalWorkers : ClaimJob(w)
    \/ \E w \in LocalWorkers, j \in JobIds : HandlerSucceeds(w, j)
    \/ \E w \in LocalWorkers, j \in JobIds : HandlerFails(w, j)

SpecSideBySide == InitSideBySide /\ [][NextSideBySide]_vars

(***************************************************************************)
(* followUser calls for one pair, the clock running                        *)
(***************************************************************************)
\* Clock ticks in a run of the follow specification.
FollowTicks == 3

FollowStep == NewFollowWindow \div TicksPerWindow
FollowHorizon == FollowTicks * FollowStep

InitFollow ==
    /\ EngineInit(<<>>)
    /\ ProcessInit
    /\ AppInit

NextFollow ==
    \/ \E target \in {"user", "follower", "nobody"} : FollowUser(target)
    \/ \E c \in DOMAIN followCalls : FindTargetSettles(c)
    \/ \E c \in DOMAIN followCalls : UpsertReads(c)
    \/ \E c \in DOMAIN followCalls : UpsertWrites(c)
    \/ \E c \in DOMAIN followCalls : UpsertSettles(c)
    \/ \E c \in DOMAIN followCalls : CreateNotification(c)
    \/ \E c \in DOMAIN followCalls : CreateActivity(c)
    \/ \E c \in DOMAIN followCalls : FindExisting(c)
    \/ Tick(FollowStep, FollowHorizon)

SpecFollow == InitFollow /\ [][NextFollow]_vars

(***************************************************************************)
(* Rate-limited callers of the auth endpoints, the clock running           *)
(***************************************************************************)
\* Clock ticks in a run of the rate-limit specification.
RateLimitTicks == 3

RateLimitStep == AuthWindowMs \div TicksPerWindow
RateLimitHorizon == RateLimitTicks * RateLimitStep

InitRateLimit ==
    /\ EngineInit(<<>>)
    /\ ProcessInit
    /\ AppInit

NextRateLimit ==
    \/ \E ip \in Ips : CheckAuthRateLimit(ip)
    \/ \E key \in RateLimitKeys : ClearRateLimit(key)
    \/ Cleanup
    \/ Tick(RateLimitStep, RateLimitHorizon)

SpecRateLimit == InitRateLimit /\ [][NextRateLimit]_vars

(***************************************************************************)
(* Progress requests for one library entry                                 *)
(***************************************************************************)
InitProgress ==
    /\ EngineInit(<<>>)
    /\ ProcessInit
    /\ AppInit

NextProgress ==
    \/ \E n \in ChapterInputs : Patch(n)
    \/ \E t \in DOMAIN patchTx : FindEntry(t)
    \/ \E t \in DOMAIN patchTx : FindUser(t)
    \/ \E t \in DOMAIN patchTx : UpdateEntry(t)
    \/ \E t \in DOMAIN patchTx : UpdateUser(t)
    \/ \E t \in DOMAIN patchTx : Commit(t)

SpecProgress == InitProgress /\ [][NextProgress]_vars

(***************************************************************************)
(* Properties                                                              *)
(***************************************************************************)
\* Shutdown invocations that have started the step of closing the workers,
\* of disconnecting the store, of exiting the process.
StartedClose == {i \in DOMAIN sdPc : sdPc[i].pc \in {"awaitClose", "awaitQuit", "exited"}}
StartedDisconnect == {i \in DOMAIN sdPc : sdPc[i].pc \in {"awaitQuit", "exited"}}
StartedExit == {i \in DOMAIN sdPc : sdPc[i].pc = "exited"}

\* C1: whatever signals arrive, each of the steps 'close workers',
\* 'disconnect store' and 'process.exit' is started by at most one shutdown
\* invocation.
C1_ShutdownRunsOnce ==
    /\ Cardinality(StartedClose) <= 1
    /\ Cardinality(StartedDisconnect) <= 1
    /\ Cardinality(StartedExit) <= 1

\* The store connection is closing (a quit has been issued) or closed.
ConnectionClosing ==
    \/ ShutdownAt(sdPc, "awaitQuit") # {}
    \/ redisStatus # "ready"
    \/ exited

\* C2: in no reachable state is the store connection closing or closed
\* while a handler of either worker of the process is still executing.
C2_HandlersFinishBeforeDisconnect ==
    ConnectionClosing => \A w \in LocalWorkers : running[w] = <<>>

\* A shutdown whose signal arrived while a handler was executing has gone
\* all the way to the closed connection.
C2_Witness ==
    \E i \in DOMAIN sdPc :
        /\ sdPc[i].inflight # {}
        /\ sdPc[i].pc = "exited"
        /\ redisStatus = "end"
        /\ \A j \in sdPc[i].inflight : jobs[j].state \in {"completed", "delayed", "failed"}

\* C3: once a termination signal has been handled by shutdown, no step
\* starts a new scheduler cycle.
C3_NoCycleAfterShutdown ==
    [][sdPc # <<>> => cyclesStarted' = cyclesStarted]_vars

\* C4: the handler invocations executing in one worker never number more
\* than its concurrency: 5 on the check-source worker, 10 on the
\* notification worker.
C4_ConcurrencyBound ==
    /\ Len(running[CheckSourceWorker]) <= 5
    /\ Len(running[NotificationWorker]) <= 10

\* Every slot of the check-source worker is taken while jobs wait and the
\* rate limiter would let one start.
C4_Witness ==
    /\ Len(running[CheckSourceWorker]) = 5
    /\ Promoted(CHECK_SOURCE_QUEUE) # <<>>
    /\ limiter[CHECK_SOURCE_QUEUE].count < 10

\* C5 as stated: no rolling window of 1000 ms holds more than 10 job starts
\* of the check-source queue.  starts holds the starts of the last 1000 ms.
C5_RollingWindow ==
    Len(starts[CHECK_SOURCE_QUEUE]) <= 10

\* Job starts of q since its current limiter window opened.
StartsInLimiterWindow(q) ==
    {i \in DOMAIN starts[q] : starts[q][i] >= limiter[q].expiresAt - 1000}

\* A step in which worker w starts a job.
StartsJob(w) == Len(running'[w]) > Len(running[w])

\* C5: no limiter window (the 1000 ms that follow the first start made
\* after the previous window expired) holds more than 10 job starts, and the
\* check-source worker starts a job only when fewer than 5 of its handlers
\* are executing and the window holds fewer than 10 starts.
C5_LimiterWindow ==
    /\ [](now < limiter[CHECK_SOURCE_QUEUE].expiresAt
            => Cardinality(StartsInLimiterWindow(CHECK_SOURCE_QUEUE)) <= 10)
    /\ [][StartsJob(CheckSourceWorker) =>
            /\ Len(running[CheckSourceWorker]) < 5
            /\ \/ limiter[CHECK_SOURCE_QUEUE].expiresAt <= now
               \/ limiter[CHECK_SOURCE_QUEUE].count < 10]_vars

\* The limiter window is full while a slot is free and jobs wait: the rate
\* limit alone holds the next start back.
C5_Witness ==
    /\ now < limiter[CHECK_SOURCE_QUEUE].expiresAt
    /\ limiter[CHECK_SOURCE_QUEUE].count = 10
    /\ Len(running[CheckSourceWorker]) < 5
    /\ Promoted(CHECK_SOURCE_QUEUE) # <<>>

\* The configured attempts of a job: 3 on check-source, 5 on notifications.
MaxAttemptsOf(j) == IF jobs[j].queue = "check-source" THEN 3 ELSE 5

\* C6: a job whose handler fails on every invocation is invoked at most k
\* times (k its max attempts), is never completed, is failed exactly when
\* its k-th invocation has failed, and is then never invoked again.
C6_AlwaysFailingJob ==
    \A j \in JobIds :
        jobs[j].script >= MaxAttemptsOf(j) =>
            /\ jobs[j].invoked <= MaxAttemptsOf(j)
            /\ jobs[j].state # "completed"
            /\ jobs[j].state = "failed" => jobs[j].invoked = MaxAttemptsOf(j)
            /\ (jobs[j].invoked = MaxAttemptsOf(j) /\ jobs[j].state # "active")
                    => jobs[j].state = "failed"

C6_Witness ==
    \E j \in JobIds :
        /\ jobs[j].script >= MaxAttemptsOf(j)
        /\ jobs[j].state = "failed"
        /\ jobs[j].invoked = MaxAttemptsOf(j)

\* C7: a job whose handler fails on attempts 1..n-1 and succeeds on attempt
\* n <= k is invoked at most n times, never ends failed, and is completed
\* exactly when n invocations have happened and the n-th has returned.
C7_SucceedsOnNthAttempt ==
    \A j \in JobIds :
        jobs[j].script < MaxAttemptsOf(j) =>
            /\ jobs[j].invoked <= jobs[j].script + 1
            /\ jobs[j].state # "failed"
            /\ jobs[j].state = "completed" => jobs[j].invoked = jobs[j].script + 1
            /\ (jobs[j].invoked = jobs[j].script + 1 /\ jobs[j].state # "active")
                    => jobs[j].state = "completed"

C7_Witness ==
    \E j \in JobIds :
        /\ jobs[j].script >= 1
        /\ jobs[j].script = MaxAttemptsOf(j) - 1
        /\ jobs[j].state = "completed"
        /\ jobs[j].invoked = MaxAttemptsOf(j)

\* The configured backoff base of a job's queue, in ms.
BaseDelayOf(j) == IF jobs[j].queue = "check-source" THEN 5000 ELSE 1000

\* C8: the delay applied after failed attempt i is b * 2^(i-1), for every
\* i from 1 to max attempts - 1, and a delayed job is due exactly that long
\* after the failure.
C8_ExponentialBackoff ==
    \A j \in JobIds :
        /\ Len(jobs[j].backoffs) <= MaxAttemptsOf(j) - 1
        /\ \A i \in DOMAIN jobs[j].backoffs :
                jobs[j].backoffs[i] = BaseDelayOf(j) * 2^(i - 1)
        /\ jobs[j].state = "delayed" =>
                /\ Len(jobs[j].backoffs) = jobs[j].attemptsMade
                /\ jobs[j].dueAt - jobs[j].failedAt
                        = BaseDelayOf(j) * 2^(jobs[j].attemptsMade - 1)

\* A check-source job has been delayed after each of its first two failures.
C8_Witness ==
    \E j \in JobIds :
        /\ jobs[j].queue = CHECK_SOURCE_QUEUE
        /\ jobs[j].state = "delayed"
        /\ jobs[j].backoffs = <<5000, 10000>>

\* C9: a notifications job whose handler fails attempts 1 to 4 and succeeds
\* on attempt 5 is never failed, and when it is completed it has been invoked
\* 5 times and delayed by 1000, 2000, 4000 and 8000 ms: 15000 ms in all,
\* which have then elapsed.
C9_NotificationScenario ==
    \A j \in JobIds :
        (jobs[j].queue = "notifications" /\ jobs[j].script = 4) =>
            /\ jobs[j].state # "failed"
            /\ jobs[j].state = "completed" =>
                    /\ jobs[j].invoked = 5
                    /\ jobs[j].backoffs = <<1000, 2000, 4000, 8000>>
                    /\ SeqSum(jobs[j].backoffs) = 15000
                    /\ now >= 15000

C9_Witness ==
    \E j \in JobIds :
        /\ jobs[j].queue = "notifications"
        /\ jobs[j].script = 4
        /\ jobs[j].state = "completed"
        /\ now = 15000

\* Handler invocations, over all workers on all processes, holding job j.
Holders(j) ==
    Occurrences(running[CheckSourceWorker], j)
        + Occurrences(running[NotificationWorker], j)
        + Occurrences(running[PeerWorker], j)

\* C10: each job is held by at most one handler invocation, and exactly
\* the active jobs are held.
C10_MutualExclusion ==
    \A j \in JobIds :
        /\ Holders(j) <= 1
        /\ Holders(j) = 1 <=> jobs[j].state = "active"

\* Two worker processes on the same queue each hold a job at the same time.
C10_Witness ==
    /\ running[CheckSourceWorker] # <<>>
    /\ running[PeerWorker] # <<>>
    /\ \A j \in JobIds : Holders(j) = 1

\* The places of the store holding job j: its wait list, the handler
\* invocations, and the sets of delayed (waiting for a retry), completed and
\* failed jobs.
PlacesOf(j) ==
    Occurrences(wait[jobs[j].queue], j) + Holders(j)
        + (IF jobs[j].state \in {"delayed", "completed", "failed"} THEN 1 ELSE 0)

\* The handler invocations of job j that have been reported to the store, as
\* a failure or as the completion.
Reports(j) ==
    jobs[j].attemptsMade + (IF jobs[j].state = "completed" THEN 1 ELSE 0)

\* C11: across a shutdown every job is in exactly one place of the store
\* (waiting, a delayed job counting as waiting for its retry, active,
\* completed or failed), every handler invocation that is over has been
\* reported exactly once, and a job that was in flight when a signal arrived
\* has been executed once only and, when the process has exited, reported.
C11_NoJobLostOrDuplicated ==
    /\ \A j \in JobIds :
        /\ PlacesOf(j) = 1
        /\ jobs[j].state \in {"waiting", "delayed", "active", "completed", "failed"}
        /\ jobs[j].state = "waiting" <=> Occurrences(wait[jobs[j].queue], j) = 1
        /\ jobs[j].invoked = Reports(j) + Holders(j)
    /\ \A i \in DOMAIN sdPc : \A j \in sdPc[i].inflight :
        /\ jobs[j].invoked = 1
        /\ exited => j \notin InFlight /\ Reports(j) = 1

\* The process has exited after a signal that found one job in flight, now
\* completed, and another job waiting, which is still waiting.
C11_Witness ==
    /\ exited
    /\ \E i \in DOMAIN sdPc : \E j \in sdPc[i].inflight :
        /\ jobs[j].state = "completed"
        /\ Reports(j) = 1
        /\ \E k \in JobIds \ sdPc[i].inflight :
            /\ jobs[k].state = "waiting"
            /\ jobs[k].invoked = 0

\* C12: a timer cycle in which runMasterScheduler throws is caught inside the
\* callback: the step that logs the error leaves the timer armed and due as
\* it was and the process running; a cycle starts only when the timer is
\* due, and the timer is then due again SCHEDULER_INTERVAL (5 minutes) later;
\* and short of a shutdown the timer stays armed whatever cycles failed.
C12_FailingCycleKeepsTimer ==
    /\ []((startPc = "armed" /\ sdPc = <<>>) => (timerArmed /\ ~exited))
    /\ [][
            /\ (cycleLog.errors' > cycleLog.errors) =>
                (/\ timerArmed' = timerArmed
                 /\ timerDue' = timerDue
                 /\ schedulerInterval' = schedulerInterval
                 /\ exited' = exited)
            /\ (cyclesStarted' > cyclesStarted) =>
                (/\ timerArmed
                 /\ now >= timerDue
                 /\ timerDue' = now + 5 * 60 * 1000)
         ]_vars

\* The first timer cycle has thrown, and the timer has fired again one
\* interval later.
C12_Witness ==
    /\ cycleLog.errors >= 1
    /\ cyclesStarted = 2
    /\ timerArmed
    /\ cycleLog.lastErrorAt < timerDue - SCHEDULER_INTERVAL
    /\ ~exited

\* C13: while the initial run of runMasterScheduler is pending no timer is
\* armed and no cycle has started, so the routine has run exactly once; when
\* the initial run has settled, by returning or by throwing, startScheduler
\* has armed the timer.
C13_TimerArmedAfterInitialRun ==
    /\ (initialRun = "pending") <=> (startPc = "initialRun")
    /\ (startPc = "initialRun") =>
            (schedulerInterval = NULL /\ ~timerArmed /\ cyclesStarted = 0)
    /\ (startPc # "initialRun") => (startPc = "armed" /\ schedulerInterval = TIMER)

\* The initial run threw, and the timer was armed and has fired.
C13_Witness ==
    /\ initialRun = "threw"
    /\ timerArmed
    /\ cyclesStarted >= 1

\* C14: once the scheduler has been stopped (the clearInterval step of a
\* shutdown invocation), no further cycle starts, and a second stop leaves
\* the state of the scheduler as the first one left it.
C14_StopIdempotent ==
    [][(sdPc # <<>>) =>
        (/\ cyclesStarted' = cyclesStarted
         /\ (Len(sdPc') > Len(sdPc)) =>
                (/\ schedulerInterval' = schedulerInterval
                 /\ timerArmed' = timerArmed
                 /\ timerDue' = timerDue))]_vars

\* The state of the shutdown coordinator: running (0), draining (1),
\* disconnecting the store (2), exited (3).
Phase ==
    IF exited THEN 3
    ELSE IF StartedDisconnect # {} THEN 2
    ELSE IF sdPc # <<>> THEN 1
    ELSE 0

\* How far a shutdown invocation has gone.
PcRank(pc) ==
    CASE pc = "awaitClose" -> 1
      [] pc = "awaitQuit" -> 2
      [] pc = "exited" -> 3
      [] OTHER -> 0

\* C15: the shutdown moves forward only, one state at a time, through
\* running, draining, disconnecting and exited, and so does each shutdown
\* invocation; the disconnect of the store has started only when both
\* workers have closed, and the process has exited only when a disconnect
\* step has finished and the connection is closed.
C15_ShutdownForwardOnly ==
    /\ [](StartedDisconnect # {} => WorkersClosed(closed))
    /\ [](exited =>
            /\ redisStatus = "end"
            /\ \E i \in StartedExit : sdPc[i].quit # "none")
    /\ [][
            /\ Phase' \in {Phase, Phase + 1}
            /\ \A i \in DOMAIN sdPc :
                    PcRank(sdPc'[i].pc) \in {PcRank(sdPc[i].pc), PcRank(sdPc[i].pc) + 1}
         ]_vars

\* A shutdown that waited for a handler, then for the quit, has exited.
C15_Witness ==
    /\ Phase = 3
    /\ \E i \in StartedExit : sdPc[i].inflight # {} /\ sdPc[i].quit = "quit"
    /\ WorkersClosed(closed)

\* C16: a shutdown invocation whose redis.quit() was rejected has forced the
\* disconnect and has gone on to process.exit: the process has exited and
\* the connection is closed.
C16_QuitFailureStillExits ==
    \A i \in DOMAIN sdPc :
        sdPc[i].quit = "forced" =>
            /\ sdPc[i].pc = "exited"
            /\ exited
            /\ redisStatus = "end"

\* The quit of a shutdown was rejected, and the process has exited.
C16_Witness ==
    /\ exited
    /\ \E i \in DOMAIN sdPc : sdPc[i].quit = "forced" /\ sdPc[i].pc = "exited"

\* C17: a handler that throws fails its job and nothing else: the step leaves
\* the process running and the workers open, whatever number of failures
\* came before, and a worker with a free slot takes the next waiting job.
C17_HandlerFailureNotFatal ==
    /\ [](\A w \in LocalWorkers :
            /\ ~exited /\ ~closing[w] /\ ~closed[w]
            /\ (Promoted(QueueOf(w)) # <<>> /\ SlotFree(w) /\ LimiterPermits(QueueOf(w)))
                    => ENABLED ClaimJob(w))
    /\ [][(\E j \in JobIds : jobs'[j].attemptsMade > jobs[j].attemptsMade) =>
                (exited' = exited /\ closing' = closing /\ closed' = closed)]_vars

\* After four failed invocations of a notification job the notification
\* worker has claimed it again and is executing it.
C17_Witness ==
    \E j \in JobIds :
        /\ jobs[j].queue = NOTIFICATION_QUEUE
        /\ jobs[j].attemptsMade = 4
        /\ jobs[j].state = "active"
        /\ Occurrences(running[NotificationWorker], j) = 1
        /\ ~exited

\* The delays retryStrategy returned for the attempts 1, 2, ... of the current
\* outage.
Delays == [n \in {k \in DOMAIN retryDelays : ~retryDelays[k].giveUp} |-> retryDelays[n].delay]

\* C18: the delays of the attempts 1..20 are an exponential function of the
\* attempt number capped at 5000 ms: none exceeds the cap, and below the
\* cap each is the one before multiplied by one same factor greater than 1.
C18_ExponentialRetryDelay ==
    /\ \A n \in DOMAIN Delays : Delays[n] <= 5000
    /\ \A n \in DOMAIN Delays :
        (n >= 2 /\ Delays[n] < 5000) => Delays[n] > Delays[n - 1]
    /\ \A n \in DOMAIN Delays :
        (n >= 3 /\ Delays[n] < 5000) =>
            Delays[n] * Delays[n - 2] = Delays[n - 1] * Delays[n - 1]

\* retryStrategy has given up: the connection has ended for good.
GaveUp == retryDelays # <<>> /\ retryDelays[Len(retryDelays)].giveUp

\* C19: retryStrategy returns a delay for each of the attempts 1..20 and
\* gives up above; and when it has given up the process has exited or is
\* shutting down.
C19_RetryExhaustionFatal ==
    /\ \A n \in DOMAIN retryDelays : retryDelays[n].giveUp <=> n > 20
    /\ GaveUp => (exited \/ sdPc # <<>>)

\* C20: a call of Queue.add issued while the store connection is down is
\* rejected; no call resolves without its job in the store; every call is
\* accounted for.
C20_EnqueueFailsWhenUnreachable ==
    \A i \in DOMAIN enqueues :
        /\ enqueues[i].issued # "ready" => enqueues[i].outcome # "resolved"
        /\ enqueues[i].outcome = "resolved" =>
                /\ enqueues[i].job \in JobIds
                /\ jobs[enqueues[i].job].queue = enqueues[i].queue
        /\ enqueues[i].outcome \in {"pending", "resolved", "rejected"}

\* The events of one kind emitted by all the workers.
EmittedCompleted ==
    emitted[CheckSourceWorker].completed + emitted[NotificationWorker].completed
        + emitted[PeerWorker].completed
EmittedFailed ==
    emitted[CheckSourceWorker].failed + emitted[NotificationWorker].failed
        + emitted[PeerWorker].failed

\* The events worker w has emitted.
EmittedBy(w) == emitted[w].completed + emitted[w].failed

\* C21: the step that ends a handler invocation of a worker emits exactly
\* one event on that worker, 'completed' when the job has completed and
\* 'failed' otherwise (retried or not), and no other step emits an event;
\* so there are as many 'completed' events as completed jobs and as many
\* 'failed' events as failed attempts.
C21_OneEventPerInvocation ==
    /\ [](/\ EmittedCompleted = Cardinality({j \in JobIds : jobs[j].state = "completed"})
          /\ EmittedFailed = SeqSum([j \in JobIds |-> jobs[j].attemptsMade]))
    /\ [][
            \A w \in Workers :
                IF Len(running'[w]) < Len(running[w])
                THEN /\ EmittedBy(w)' = EmittedBy(w) + 1
                     /\ (emitted'[w].completed = emitted[w].completed + 1)
                            <=> (\E j \in JobIds :
                                    /\ Occurrences(running[w], j) > Occurrences(running'[w], j)
                                    /\ jobs'[j].state = "completed")
                ELSE emitted'[w] = emitted[w]
         ]_vars

\* One worker has emitted 'failed' for an attempt that will be retried, the
\* other 'completed'.
C21_Witness ==
    /\ emitted[CheckSourceWorker] = [completed |-> 0, failed |-> 1]
    /\ emitted[NotificationWorker] = [completed |-> 1, failed |-> 0]
    /\ \E j \in JobIds : jobs[j].state = "delayed" /\ jobs[j].queue = CHECK_SOURCE_QUEUE
    /\ running[CheckSourceWorker] = <<>>
    /\ running[PeerWorker] = <<>>

\* C22: a worker of the process that shutdown has asked to close takes no
\* job from then on; a handler invocation it holds ends only by its own
\* return or throw, which is reported; and a waiting job stops waiting only
\* when a worker that has not been asked to close claims it.
C22_ClosingWorkerClaimsNothing ==
    [][
        /\ \A w \in LocalWorkers : \A j \in JobIds :
            closing[w] =>
                /\ Occurrences(running'[w], j) <= Occurrences(running[w], j)
                /\ (Occurrences(running'[w], j) < Occurrences(running[w], j)) =>
                        (/\ jobs'[j].state \in {"completed", "delayed", "failed"}
                         /\ Reports(j)' = Reports(j) + 1)
        /\ \A j \in JobIds :
            (jobs[j].state = "waiting" /\ jobs'[j].state # "waiting") =>
                (\E v \in Workers :
                    /\ ~closing[v]
                    /\ QueueOf(v) = jobs[j].queue
                    /\ Occurrences(running'[v], j) = 1)
    ]_vars

\* The notification worker was asked to close while it was executing one job
\* and another was waiting: the first has completed, the worker has closed,
\* and the second is still waiting, never executed.
C22_Witness ==
    /\ closed[NotificationWorker]
    /\ emitted[NotificationWorker].completed = 1
    /\ \E i \in DOMAIN sdPc : \E j \in sdPc[i].inflight :
        /\ jobs[j].queue = NOTIFICATION_QUEUE
        /\ jobs[j].state = "completed"
    /\ \E k \in JobIds :
        /\ jobs[k].queue = NOTIFICATION_QUEUE
        /\ jobs[k].state = "waiting"
        /\ jobs[k].invoked = 0
        /\ wait[NOTIFICATION_QUEUE] = <<k>>

\* C23: when the handlers in progress return, a shutdown that has begun
\* leads to process.exit(0); and as long as a handler of the process has not
\* returned it holds its slot, its worker has not closed and the shutdown
\* has gone no further than draining.
C23_ShutdownTerminates ==
    /\ (sdPc # <<>>) ~> (exited /\ StartedExit # {})
    /\ [](\A w \in LocalWorkers :
            running[w] # <<>> =>
                /\ ~closed[w]
                /\ ~exited
                /\ Phase <= 1
                /\ Len(running[w]) + (IF SlotFree(w) THEN 1 ELSE 0) <= Concurrency(w))

\* A shutdown is draining behind a handler that has not returned.
C23_Witness ==
    /\ Phase = 1
    /\ \E w \in LocalWorkers : closing[w] /\ running[w] # <<>>
    /\ \E w \in LocalWorkers : closed[w]

\* C24: while a shutdown invocation is disconnecting the store, no
\* runMasterScheduler invocation is in progress, neither a timer cycle nor
\* the initial run.
C24_NoCycleDuringDisconnect ==
    (ShutdownAt(sdPc, "awaitQuit") # {} /\ ~exited) =>
        (cyclesRunning = 0 /\ initialRun # "pending")

\* The delay the store applied after the last failed attempt of job j.
LastBackoff(j) == jobs[j].backoffs[Len(jobs[j].backoffs)]

\* C25: a job that failed with attempts remaining is in no wait list and in
\* no handler while its backoff delay runs, and is claimed again only when
\* the delay has elapsed since the failure; once it has elapsed the job is
\* in the line the workers claim from, behind the jobs already waiting.
C25_RetryWaitsForBackoff ==
    /\ [](\A j \in JobIds :
            jobs[j].state = "delayed" =>
                /\ Holders(j) = 0
                /\ Occurrences(wait[jobs[j].queue], j) = 0
                /\ (now < jobs[j].dueAt) =>
                        (Occurrences(Promoted(jobs[j].queue), j) = 0)
                /\ (now >= jobs[j].dueAt) =>
                        (Occurrences(Promoted(jobs[j].queue), j) = 1))
    /\ [][
            \A j \in JobIds :
                (/\ jobs[j].attemptsMade >= 1
                 /\ jobs[j].state # "active"
                 /\ jobs'[j].state = "active")
                    => (now >= jobs[j].failedAt + LastBackoff(j))
         ]_vars

\* The first notification job has failed and its delay is running; the other
\* nine of the first ten are still executing, and the eleventh, which was
\* waiting for a slot, has been claimed in the meantime.
C25_Witness ==
    /\ Len(jobs) = 11
    /\ jobs[1].queue = NOTIFICATION_QUEUE
    /\ jobs[1].state = "delayed"
    /\ now < jobs[1].dueAt
    /\ \A j \in 2..11 : jobs[j].state = "active" /\ jobs[j].invoked = 1

\* Job j is active and no handler invocation of a live process holds it: its
\* process crashed while it was active.
Orphaned(j) == jobs[j].state = "active" /\ Holders(j) = 0

\* The store holds job j in exactly one place, an orphaned active job being
\* held by the active set alone.
Kept(j) ==
    /\ jobs[j].state \in {"waiting", "delayed", "active", "completed", "failed"}
    /\ Holders(j) <= 1
    /\ Holders(j) = 1 => jobs[j].state = "active"
    /\ Occurrences(wait[jobs[j].queue], j) = (IF jobs[j].state = "waiting" THEN 1 ELSE 0)

\* The store keeps every job, an orphaned job is one whose lock is running
\* out, and once the lock has run out the stalled-job check of every live
\* worker of the queue is ready to take the job.
CrashInvariant ==
    \A j \in JobIds :
        /\ Kept(j)
        /\ Orphaned(j) <=> jobs[j].lockedUntil # 0
        /\ (Orphaned(j) /\ now >= jobs[j].lockedUntil) =>
                \A w \in Workers :
                    (QueueOf(w) = jobs[j].queue /\ WorkerAlive(w))
                        => ENABLED RecoverStalled(w)

\* A step that touches the orphaned job j happens when its lease has
\* expired, and is no handler invocation and no report of one.
TakenWhenExpired(j) ==
    /\ now >= jobs[j].lockedUntil
    /\ jobs'[j].invoked = jobs[j].invoked
    /\ jobs'[j].attemptsMade = jobs[j].attemptsMade

\* Job j is back on its wait list, to be claimed and executed again.
Reclaimed(j) ==
    /\ jobs'[j].state = "waiting"
    /\ Occurrences(wait'[jobs[j].queue], j) = 1

\* C26 as stated: when the worker process crashes while a job is active, the
\* job stays active until its lease expires and is then reclaimed, to be
\* executed again; it is never left active for good and never dropped.
C26_CrashedJobExecutedAgain ==
    /\ []CrashInvariant
    /\ [][
            \A j \in JobIds :
                (Orphaned(j) /\ jobs'[j] # jobs[j]) =>
                    (TakenWhenExpired(j) /\ Reclaimed(j))
         ]_vars

\* Job j is back on its wait list if it has been found stalled at most
\* MaxStalledCount times, and is moved to failed, unexecuted, otherwise.
ReclaimedOrFailed(j) ==
    /\ jobs'[j].stalledCounter = jobs[j].stalledCounter + 1
    /\ IF jobs'[j].stalledCounter <= MaxStalledCount
       THEN Reclaimed(j)
       ELSE /\ jobs'[j].state = "failed"
            /\ Occurrences(wait'[jobs[j].queue], j) = 0

\* C26, amended: when the worker process crashes while a job is active, the
\* job stays active until its lease expires; the stalled-job check of a live
\* worker of its queue then puts it back on the wait list, to be executed
\* again, the first time, and moves it to failed the second time.  The job
\* is never dropped, and never left active once a live worker checks.
C26_CrashedJobReclaimedOrFailed ==
    /\ []CrashInvariant
    /\ [][
            \A j \in JobIds :
                (Orphaned(j) /\ jobs'[j] # jobs[j]) =>
                    (TakenWhenExpired(j) /\ ReclaimedOrFailed(j))
         ]_vars

\* A job that was active when its process crashed has been reclaimed and
\* executed a second time, to completion.
C26_Witness ==
    \E j \in JobIds :
        /\ jobs[j].stalledCounter = 1
        /\ jobs[j].invoked = 2
        /\ jobs[j].attemptsMade = 0
        /\ jobs[j].state = "completed"

\* C27: the process has at most one scheduler timer: the handle is created
\* once, by the step in which startScheduler leaves its initial run, and is
\* never replaced or lost while the timer is armed; the timer is torn down at
\* shutdown, so none is armed once a shutdown has passed its clearInterval
\* step, and a timer that was torn down is not armed again.
C27_OneTimer ==
    /\ [](/\ timerArmed => schedulerInterval = TIMER
          /\ (schedulerInterval = TIMER) <=> (startPc = "armed")
          /\ (sdPc # <<>>) => ~timerArmed)
    /\ [][
            /\ (schedulerInterval' # schedulerInterval) =>
                    (/\ startPc = "initialRun"
                     /\ schedulerInterval = NULL
                     /\ schedulerInterval' = TIMER)
            /\ (timerArmed' /\ ~timerArmed) => (schedulerInterval' # schedulerInterval)
            /\ (startPc' # startPc) => (startPc = "initialRun")
         ]_vars

\* C29: the retry options of a job are those of its queue and nothing else:
\* a notifications job is given up after its 5th failed attempt and not
\* before, its first retry delay is 1000 ms and each further one the double
\* of the one before; a check-source job is given up after its 3rd failed
\* attempt, its first retry delay is 5000 ms, doubling likewise.
C29_DefaultJobOptions ==
    \A j \in JobIds :
        LET attempts == IF jobs[j].queue = "notifications" THEN 5 ELSE 3
            base == IF jobs[j].queue = "notifications" THEN 1000 ELSE 5000
            delays == jobs[j].backoffs
        IN  /\ jobs[j].attemptsMade <= attempts
            /\ jobs[j].state = "failed" <=> jobs[j].attemptsMade = attempts
            /\ Len(delays) = (IF jobs[j].state = "failed" THEN attempts - 1
                              ELSE jobs[j].attemptsMade)
            /\ delays # <<>> => delays[1] = base
            /\ \A i \in DOMAIN delays : i > 1 => delays[i] = 2 * delays[i - 1]

\* A check-source job has used up its attempts: three failures, retried
\* after 5000 and 10000 ms.
C29_Witness ==
    \E j \in JobIds :
        /\ jobs[j].queue = "check-source"
        /\ jobs[j].state = "failed"
        /\ jobs[j].attemptsMade = 3
        /\ jobs[j].backoffs = <<5000, 10000>>
        /\ now >= 15000

\* A job of the notifications queue can be claimed: the worker is open, has
\* a free slot among its 10, and a job of its queue waits.
NotificationSlotAvailable ==
    /\ ~exited
    /\ ~closing[NotificationWorker]
    /\ Len(running[NotificationWorker]) < 10
    /\ Promoted(NOTIFICATION_QUEUE) # <<>>

\* The check-source worker can start nothing: all of its slots are taken
\* and the budget of the limiter window is used up, while a job waits.
CheckSourceSaturated ==
    /\ Len(running[CheckSourceWorker]) = CheckSourceConcurrency
    /\ limiter[CHECK_SOURCE_QUEUE].count = LimiterMax
    /\ wait[CHECK_SOURCE_QUEUE] # <<>>
    /\ ~ENABLED ClaimJob(CheckSourceWorker)

\* C30: the two workers are limited independently.  Whether the
\* notification worker can claim depends on its own slots and queue only,
\* whatever the check-source worker holds and whatever is left of its
\* rate-limit budget; the notifications queue has no limiter state; and a
\* step of either worker leaves the handler invocations of the other, and
\* the limiter state and the wait list of the other's queue, as they were.
C30_WorkersIndependent ==
    /\ [](/\ ENABLED ClaimJob(NotificationWorker) <=> NotificationSlotAvailable
          /\ limiter[NOTIFICATION_QUEUE] = NoLimiterKey
          /\ starts[NOTIFICATION_QUEUE] = <<>>)
    /\ [][
            /\ (running'[CheckSourceWorker] # running[CheckSourceWorker]) =>
                    (/\ running'[NotificationWorker] = running[NotificationWorker]
                     /\ limiter'[NOTIFICATION_QUEUE] = limiter[NOTIFICATION_QUEUE]
                     /\ starts'[NOTIFICATION_QUEUE] = starts[NOTIFICATION_QUEUE]
                     /\ wait'[NOTIFICATION_QUEUE] = wait[NOTIFICATION_QUEUE]
                     /\ emitted'[NotificationWorker] = emitted[NotificationWorker])
            /\ (running'[NotificationWorker] # running[NotificationWorker]) =>
                    (/\ running'[CheckSourceWorker] = running[CheckSourceWorker]
                     /\ limiter'[CHECK_SOURCE_QUEUE] = limiter[CHECK_SOURCE_QUEUE]
                     /\ starts'[CHECK_SOURCE_QUEUE] = starts[CHECK_SOURCE_QUEUE]
                     /\ wait'[CHECK_SOURCE_QUEUE] = wait[CHECK_SOURCE_QUEUE]
                     /\ emitted'[CheckSourceWorker] = emitted[CheckSourceWorker])
         ]_vars

\* The check-source worker is saturated while the notification worker runs a
\* handler and can claim the next job of its queue.
C30_Witness ==
    /\ CheckSourceSaturated
    /\ running[NotificationWorker] # <<>>
    /\ ENABLED ClaimJob(NotificationWorker)

\* The followUser calls that have returned a follow.
ReturnedFollow == {c \in DOMAIN followCalls : followCalls[c].result = "follow"}

\* C31: whatever the interleaving of the followUser calls of one follower on
\* one target, the pair has at most one follow row; every call that returns
\* returns that row; once the row exists no call creates or changes one; and
\* a call that found the row, or lost the race to create it, created none.
C31_FollowRaceSafe ==
    /\ [](/\ Len(follow) <= 1
          /\ \A c \in ReturnedFollow :
                /\ follow # <<>>
                /\ followCalls[c].created_at = follow[1].created_at
          /\ \A c \in DOMAIN followCalls :
                (followCalls[c].seen \/ followCalls[c].pc = "findExisting")
                    => ~followCalls[c].created
          /\ Cardinality({c \in DOMAIN followCalls : followCalls[c].created}) = Len(follow))
    /\ [][(follow # <<>>) => (follow' = follow)]_vars

\* Two calls raced: both looked the pair up before either had written, one
\* created the row, the other was refused and returned the row of the first.
C31_Witness ==
    \E c, d \in ReturnedFollow :
        /\ followCalls[c].created
        /\ ~followCalls[d].created
        /\ ~followCalls[d].seen
        /\ Len(follow) = 1

\* C32: followUser notifies and logs the activity only in a call that
\* created the follow, so the notifications and the activities never
\* outnumber the follow rows created.
C32_NotifyOnlyOnCreate ==
    /\ \A c \in DOMAIN followCalls :
            followCalls[c].isNewFollow => followCalls[c].created
    /\ notification <= Len(follow)
    /\ activity <= Len(follow)

\* C33: from the call that opens a window for a key until the reset time of
\* that window, exactly the first AuthMaxRequests calls of checkAuthRateLimit
\* return true and every later call returns false.
C33_AtMostMaxRequests ==
    \A k \in RateLimitKeys :
        \A i \in DOMAIN rateLimitLog[k].window :
            rateLimitLog[k].window[i] = (i <= AuthMaxRequests)

\* A window with more calls than the limit whose latest call, made at the
\* reset time itself, was refused.
C33_Witness ==
    \E k \in RateLimitKeys :
        /\ Len(rateLimitLog[k].window) > AuthMaxRequests
        /\ rateLimitLog[k].window[AuthMaxRequests]
        /\ ~rateLimitLog[k].window[AuthMaxRequests + 1]
        /\ now = rateLimitLog[k].resetTime

\* A step is a call of checkRateLimit for key k.
CalledFor(k) ==
    /\ rateLimitLog'[k] # rateLimitLog[k]
    /\ rateLimitLog'[k] # NoCalls

\* C34: a refused call leaves the record of its key as it was; an accepted
\* call inside a window adds one to the count of its key and keeps the reset
\* time; a call with no record or after the reset time puts a record with
\* count 1 and reset time now + windowMs; no call changes the record of
\* another key.
C34_RateLimitFrame ==
    [][
        \A k \in RateLimitKeys :
            CalledFor(k) =>
                LET record == rateLimitStore[k]
                    live == record # NoEntry /\ now <= record.resetTime
                IN  /\ (~rateLimitLog'[k].last) => (rateLimitStore'[k] = record)
                    /\ (rateLimitLog'[k].last /\ live) =>
                            (rateLimitStore'[k] =
                                [count |-> record.count + 1,
                                 resetTime |-> record.resetTime])
                    /\ (~live) =>
                            (/\ rateLimitLog'[k].last
                             /\ rateLimitStore'[k] =
                                    [count |-> 1, resetTime |-> now + AuthWindowMs])
                    /\ \A o \in RateLimitKeys \ {k} :
                            rateLimitStore'[o] = rateLimitStore[o]
    ]_vars

\* One key refused at its limit in the window opened at 0, while the other
\* key holds a record of a window opened later and counted past 1.
C34_Witness ==
    \E k \in RateLimitKeys, o \in RateLimitKeys :
        /\ o # k
        /\ rateLimitLog[k].window # <<>>
        /\ ~rateLimitLog[k].last
        /\ rateLimitStore[k] = [count |-> AuthMaxRequests, resetTime |-> AuthWindowMs]
        /\ rateLimitStore[o].count > 1
        /\ rateLimitStore[o].resetTime > AuthWindowMs
        /\ rateLimitStore[o].resetTime >= now

\* The record a call at time t acts on: none when there is no entry or the
\* entry is past its reset time.
Effective(record, t) ==
    IF record = NoEntry \/ t > record.resetTime THEN NoEntry ELSE record

\* C35: every call of checkRateLimit returns what the same call returns on
\* a store whose cleanup never runs, and the two stores hold the same
\* record for every key as far as a call can tell.
C35_CleanupInvisible ==
    \A k \in RateLimitKeys :
        /\ rateLimitLog[k].last = rateLimitLog[k].lastUncleaned
        /\ Effective(rateLimitStore[k], now) = Effective(uncleaned[k], now)

\* A call found its entry deleted by cleanup and was admitted into a new
\* window, as it was on the store that still held the entry.
C35_Witness ==
    \E k \in RateLimitKeys :
        /\ rateLimitLog[k].afterCleanup
        /\ rateLimitLog[k].last
        /\ rateLimitLog[k].lastUncleaned
        /\ rateLimitStore[k].count = 1
        /\ uncleaned[k] = rateLimitStore[k]

\* Transaction t of a progress request commits in this step.
Commits(t) ==
    /\ patchTx[t].pc = "commit"
    /\ patchTx'[t].pc = "status200"

\* C36: last_read_chapter never decreases, and a progress request raises xp
\* or chapters_read only when its chapterNumber is greater than the entry's
\* last_read_chapter as it stands when the request takes effect, so that no
\* chapter is rewarded twice.
C36_ProgressMonotone ==
    [][
        /\ libraryEntry'.last_read_chapter >= libraryEntry.last_read_chapter
        /\ \A t \in DOMAIN patchTx :
                (/\ Commits(t)
                 /\ \/ libraryEntry'.xp > libraryEntry.xp
                    \/ libraryEntry'.chapters_read > libraryEntry.chapters_read)
                    => (patchTx[t].chapterNumber > libraryEntry.last_read_chapter)
    ]_vars

\* The place of shutdown invocation i before the step: none when the step
\* is the one that starts it.
PcBefore(i) == IF i \in DOMAIN sdPc THEN sdPc[i].pc ELSE "none"

\* Invocation i enters disconnectRedis in this step.
EntersDisconnect(i) ==
    /\ PcBefore(i) \in {"none", "awaitClose"}
    /\ sdPc'[i].pc \in {"awaitQuit", "exited", "rejected"}

\* C37: disconnectRedis entered with the connection already ended issues no
\* quit and leaves the connection as it is; entered while an earlier call
\* is still waiting for its quit, it raises no error that leaves the
\* function; and the process never exits with a connection left open.
C37_DisconnectRepeatable ==
    /\ [](/\ \A i \in DOMAIN sdPc : sdPc[i].pc # "rejected"
          /\ exited => (redisStatus = "end"))
    /\ [][
            \A i \in DOMAIN sdPc' :
                EntersDisconnect(i) =>
                    IF redisStatus = "end"
                    THEN /\ sdPc'[i].pc = "exited"
                         /\ sdPc'[i].quit = "none"
                         /\ redisStatus' = "end"
                    ELSE sdPc'[i].pc = "awaitQuit"
       ]_vars

\* A second call made while the first was waiting for its quit, the
\* connection having ended in between: the second returned without a quit
\* and the connection is closed.
C37_Witness ==
    \E i \in DOMAIN sdPc, k \in DOMAIN sdPc :
        /\ i < k
        /\ sdPc[i].pc = "awaitQuit"
        /\ sdPc[k].pc = "exited"
        /\ sdPc[k].quit = "none"
        /\ redisStatus = "end"

====
